---- MODULE Spec2Model ----
(***************************************************************************)
(* NeuroOS command pipeline: the intent classifier of ai/voice_interface.py *)
(* and the task dispatcher of ai/orchestrator.py.                           *)
(*                                                                          *)
(* A Python str is a sequence of one-character strings, so that substring   *)
(* tests, case folding, replace, split and strip are computed as Python     *)
(* computes them.  A Python dict is a record whose DOMAIN is the dict's key *)
(* set; "k" \in DOMAIN d is Python's  'k' in d.                             *)
(***************************************************************************)
EXTENDS Integers, Sequences, FiniteSets, TLC

VARIABLES
    tasks,            \* AIOrchestrator.tasks: list of task dicts
    task_history,     \* AIOrchestrator.task_history: list of references (indexes into tasks)
    modules,          \* AIOrchestrator.modules: dict name -> {function, description}
    ret,              \* what the most recent orchestrator call returned
    call,             \* the most recent orchestrator call: arguments, handler and delegate reached
    command_history,  \* VoiceInterface.command_history
    processed,        \* every value process_command has returned, in call order
    text,             \* the argument of a direct _classify_intent call
    label,            \* what that call returned
    registered,       \* the names passed to register_module so far
    workers,          \* the GUI worker threads: each one's position in run_command and its locals
    system_manager,   \* SystemManager.monitoring and the monitor threads started so far
    terminal,         \* TerminalEmulator: command_history, history_index and the entry's text
    widget            \* CommandHistory: max_history, history and current_index

orchVars == <<tasks, task_history, modules, ret, call, registered>>
voiceVars == <<command_history, processed>>
classifyVars == <<text, label>>
appVars == <<system_manager, terminal, widget>>
vars == <<tasks, task_history, modules, ret, call, command_history, processed, text, label,
          registered, workers, system_manager, terminal, widget>>

----------------------------------------------------------------------------
(* Bounds of the model *)

MaxTasks == 2
MaxLimit == 2
MaxProcessed == 3
MaxFrags == 2
MaxThreads == 2
MaxLoops == 3
MaxEntered == 2
MaxHistory == 3

----------------------------------------------------------------------------
(* Python str operations *)

LowerChars == <<"a", "b", "c", "d", "e", "f", "g", "h", "i", "j", "k", "l", "m", "n", "o", "p", "q", "r", "s", "t", "u", "v", "w", "x", "y", "z">>
UpperChars == <<"A", "B", "C", "D", "E", "F", "G", "H", "I", "J", "K", "L", "M", "N", "O", "P", "Q", "R", "S", "T", "U", "V", "W", "X", "Y", "Z">>

\* the character U+00DF (sharp s): lower() leaves it, upper() gives 'SS'
U_00DF == "U+00DF"

IsUpper(c) == \E i \in DOMAIN UpperChars : UpperChars[i] = c
IsLower(c) == \E i \in DOMAIN LowerChars : LowerChars[i] = c
IsCased(c) == IsUpper(c) \/ IsLower(c)
IsSpace(c) == c = " "

LowerChar(c) ==
    IF IsUpper(c) THEN LowerChars[CHOOSE i \in DOMAIN UpperChars : UpperChars[i] = c] ELSE c
UpperChar(c) ==
    IF IsLower(c) THEN UpperChars[CHOOSE i \in DOMAIN LowerChars : LowerChars[i] = c] ELSE c

\* str.lower()
Lower(s) == [i \in DOMAIN s |-> LowerChar(s[i])]

\* str.title(): a cased character is upper-cased after an uncased one (or at the
\* start) and lower-cased after a cased one
Title(s) ==
    [i \in DOMAIN s |->
        IF i > 1 /\ IsCased(s[i - 1]) THEN LowerChar(s[i]) ELSE UpperChar(s[i])]

\* sub in s
Contains(s, sub) ==
    \E i \in 1..(Len(s) - Len(sub) + 1) : SubSeq(s, i, i + Len(sub) - 1) = sub

\* s.find(sub) + 1: the position of the first occurrence, 0 when there is none
Find(s, sub) ==
    IF Contains(s, sub)
    THEN CHOOSE i \in 1..(Len(s) - Len(sub) + 1) :
            /\ SubSeq(s, i, i + Len(sub) - 1) = sub
            /\ \A j \in 1..(i - 1) : SubSeq(s, j, j + Len(sub) - 1) # sub
    ELSE 0

\* s.replace(old, ''): every non-overlapping occurrence, left to right
RECURSIVE Remove(_, _)
Remove(s, old) ==
    IF Find(s, old) = 0 THEN s
    ELSE SubSeq(s, 1, Find(s, old) - 1)
            \o Remove(SubSeq(s, Find(s, old) + Len(old), Len(s)), old)

\* s.split(sep)
RECURSIVE Split(_, _)
Split(s, sep) ==
    IF Find(s, sep) = 0 THEN <<s>>
    ELSE <<SubSeq(s, 1, Find(s, sep) - 1)>>
            \o Split(SubSeq(s, Find(s, sep) + Len(sep), Len(s)), sep)

\* s.strip()
RECURSIVE LStrip(_)
LStrip(s) == IF s # <<>> /\ IsSpace(s[1]) THEN LStrip(Tail(s)) ELSE s
RECURSIVE RStrip(_)
RStrip(s) == IF s # <<>> /\ IsSpace(s[Len(s)]) THEN RStrip(SubSeq(s, 1, Len(s) - 1)) ELSE s
Strip(s) == RStrip(LStrip(s))

\* lst[start:] for a Python list and any integer start
SliceFrom(lst, start) ==
    LET n == Len(lst)
        lo == IF start < 0 THEN (IF start + n < 0 THEN 0 ELSE start + n)
              ELSE (IF start > n THEN n ELSE start)
    IN  SubSeq(lst, lo + 1, n)

----------------------------------------------------------------------------
(* The keywords of the source, as Python strs *)

W_file == <<"f", "i", "l", "e">>
W_folder == <<"f", "o", "l", "d", "e", "r">>
W_directory == <<"d", "i", "r", "e", "c", "t", "o", "r", "y">>
W_list == <<"l", "i", "s", "t">>
W_ls == <<"l", "s">>
W_read == <<"r", "e", "a", "d">>
W_create == <<"c", "r", "e", "a", "t", "e">>
W_delete == <<"d", "e", "l", "e", "t", "e">>
W_search == <<"s", "e", "a", "r", "c", "h">>
W_find == <<"f", "i", "n", "d">>
W_weather == <<"w", "e", "a", "t", "h", "e", "r">>
W_internet == <<"i", "n", "t", "e", "r", "n", "e", "t">>
W_connectivity == <<"c", "o", "n", "n", "e", "c", "t", "i", "v", "i", "t", "y">>
W_network == <<"n", "e", "t", "w", "o", "r", "k">>
W_system == <<"s", "y", "s", "t", "e", "m">>
W_status == <<"s", "t", "a", "t", "u", "s">>
W_process == <<"p", "r", "o", "c", "e", "s", "s">>
W_cpu == <<"c", "p", "u">>
W_memory == <<"m", "e", "m", "o", "r", "y">>
W_health == <<"h", "e", "a", "l", "t", "h">>
W_in == <<"i", "n">>
W_London == <<"L", "o", "n", "d", "o", "n">>
W_CommandExecuted == <<"C", "o", "m", "m", "a", "n", "d", " ", "e", "x", "e", "c", "u", "t", "e", "d", ":", " ">>

file_keywords == <<W_file, W_folder, W_directory, W_list, W_ls, W_read, W_create, W_delete>>
network_keywords == <<W_search, W_find, W_weather, W_internet, W_connectivity, W_network>>
system_keywords == <<W_system, W_status, W_process, W_cpu, W_memory, W_health>>

\* any(keyword in text for keyword in keywords)
AnyKeyword(t, keywords) == \E k \in DOMAIN keywords : Contains(t, keywords[k])

Labels == {"file_operation", "network_operation", "system_operation", "general"}

----------------------------------------------------------------------------
(* ai/voice_interface.py *)

\* a classifier that carries the previous command's intent over to a text without
\* keywords
_classify_intent_context(t) ==
    IF AnyKeyword(t, file_keywords) THEN "file_operation"
    ELSE IF AnyKeyword(t, network_keywords) THEN "network_operation"
    ELSE IF AnyKeyword(t, system_keywords) THEN "system_operation"
    ELSE IF command_history # <<>> THEN command_history[Len(command_history)].intent
    ELSE "general"

\* a classifier that tests the network keywords before the file keywords
_classify_intent_network_first(t) ==
    IF AnyKeyword(t, network_keywords) THEN "network_operation"
    ELSE IF AnyKeyword(t, file_keywords) THEN "file_operation"
    ELSE IF AnyKeyword(t, system_keywords) THEN "system_operation"
    ELSE "general"

\* a classifier whose system keyword test is missing
_classify_intent_no_system(t) ==
    IF AnyKeyword(t, file_keywords) THEN "file_operation"
    ELSE IF AnyKeyword(t, network_keywords) THEN "network_operation"
    ELSE "general"

_classify_intent(t) ==
    IF AnyKeyword(t, file_keywords) THEN "file_operation"
    ELSE IF AnyKeyword(t, network_keywords) THEN "network_operation"
    ELSE IF AnyKeyword(t, system_keywords) THEN "system_operation"
    ELSE "general"

plans ==
    [file_operation |-> "1. Analyze file operation request\n2. Check permissions\n3. Execute file operation\n4. Return results",
     network_operation |-> "1. Analyze network request\n2. Check connectivity\n3. Execute network operation\n4. Process response",
     system_operation |-> "1. Analyze system request\n2. Gather system data\n3. Generate report\n4. Display information",
     general |-> "1. Process general command\n2. Execute appropriate action\n3. Return response"]

\* plans.get(intent, "Standard execution plan")
_create_execution_plan(intent) ==
    IF intent \in DOMAIN plans THEN plans[intent] ELSE "Standard execution plan"

\* time.time(): the clock's value is not modelled
Now == "time"

\* a process_command that returns the lower-cased text as the original
process_command_result_lowered(t) ==
    LET text_lower == Lower(t)
        intent == _classify_intent(text_lower)
        execution_plan == _create_execution_plan(intent)
    IN  [original_text |-> text_lower,
         detected_intent |-> intent,
         execution_plan |-> execution_plan,
         confidence |-> "0.85"]

\* the value process_command(t) returns
process_command_result(t) ==
    LET text_lower == Lower(t)
        intent == _classify_intent(text_lower)
        execution_plan == _create_execution_plan(intent)
    IN  [original_text |-> t,
         detected_intent |-> intent,
         execution_plan |-> execution_plan,
         confidence |-> "0.85"]

\* the state process_command(t) leaves: one more command_history entry
process_command_effect(t) ==
    /\ command_history' =
          Append(command_history,
                 [text |-> t,
                  intent |-> process_command_result(t).detected_intent,
                  timestamp |-> Now])
    /\ processed' = Append(processed, process_command_result(t))

----------------------------------------------------------------------------
(* Input texts *)

T_empty == <<>>
T_ls == W_ls
T_LS == <<"L", "S">>
T_hi == <<"h", "i">>
T_cpu == W_cpu
T_find == W_find

\* the texts of the process_command sequences: among them a text in both cases,
\* and a text with a character outside ASCII next to its upper-cased form
VoiceTexts ==
    {T_empty, T_ls, T_LS, T_hi, T_cpu, T_find,
     <<"p", "r", "o", "c", "e", U_00DF>>,    \* 'proce' + U+00DF
     <<"P", "R", "O", "C", "E", "S", "S">>}    \* its upper()

\* the pieces the classifier's input texts are put together from: every keyword,
\* pieces that form a keyword only across a joint ("l" + "s", "heal" + "th"),
\* an upper-case piece and pieces without any keyword
Fragments ==
    {file_keywords[k] : k \in DOMAIN file_keywords}
        \cup {network_keywords[k] : k \in DOMAIN network_keywords}
        \cup {system_keywords[k] : k \in DOMAIN system_keywords}
        \cup {<<"l">>, <<"s">>, <<"h", "e", "a", "l">>, <<"t", "h">>, <<" ">>, T_hi, T_LS}

RECURSIVE TextsOf(_)
TextsOf(n) ==
    IF n = 0 THEN {<<>>}
    ELSE TextsOf(n - 1) \cup {t \o f : t \in TextsOf(n - 1), f \in Fragments}

Texts == TextsOf(MaxFrags)

----------------------------------------------------------------------------
(* The environment of one submit_task call *)

\* str(e) of an error the environment raises
Errors == {"Path does not exist", "Connection refused"}

\* the used-percent values psutil reports
Percents == {10, 95}
Usages == [cpu : Percents, memory : Percents, disk : Percents]

\* "ok": the delegate's library calls succeed; "fail": a library call raises
\* inside the delegate's own try block; "raise": the handler's import or the
\* collaborator's constructor raises, outside any try block of the delegate
Envs ==
    [kind : {"ok"}, msg : {""}, usage : Usages]
        \cup [kind : {"fail", "raise"}, msg : Errors, usage : {[cpu |-> 10, memory |-> 10, disk |-> 10]}]

\* the environments of the call sequences: one of each kind
SeqEnvs ==
    {e \in Envs : e.msg \in {"", "Path does not exist"}
                    /\ e.usage = [cpu |-> 10, memory |-> 10, disk |-> 10]}

Returned(delegate, value) == [raised |-> FALSE, delegate |-> delegate, value |-> value]
Raised(delegate, msg) == [raised |-> TRUE, delegate |-> delegate, error |-> msg]

----------------------------------------------------------------------------
(* core/file_manager.py, core/network_manager.py, core/system_manager.py *)

list_directory(env) ==
    IF env.kind = "fail"
    THEN [success |-> FALSE, error |-> env.msg]
    ELSE [success |-> TRUE, path |-> "cwd", items |-> "entries", summary |-> "summary"]

web_search(query, env) ==
    IF env.kind = "fail"
    THEN [success |-> FALSE, error |-> env.msg]
    ELSE [success |-> TRUE, query |-> query, results |-> "results",
          total_results |-> "count", source |-> "DuckDuckGo"]

get_weather(location) ==
    [success |-> TRUE,
     weather |-> [location |-> Title(location), temperature |-> "22.5",
                  conditions |-> "Partly Cloudy", humidity |-> "65",
                  wind_speed |-> "15.2", pressure |-> "1013", timestamp |-> Now],
     source |-> "simulated"]

\* every test URL failing is still a success envelope, with connected false
check_connectivity(env) ==
    [success |-> TRUE, connected |-> (env.kind # "fail"), success_rate |-> "rate",
     tests |-> "tests", timestamp |-> Now]

get_system_network_info(env) ==
    IF env.kind = "fail"
    THEN [success |-> FALSE, error |-> env.msg]
    ELSE [success |-> TRUE, hostname |-> "hostname", local_ip |-> "ip",
          interfaces |-> "interfaces", timestamp |-> Now]

get_system_info(env) ==
    IF env.kind = "fail"
    THEN [error |-> env.msg]
    ELSE [cpu |-> [usage_percent |-> env.usage.cpu],
          memory |-> [used_percent |-> env.usage.memory],
          disk |-> [used_percent |-> env.usage.disk],
          network |-> "network",
          system |-> "system"]

get_running_processes(env) ==
    IF env.kind = "fail" THEN <<[error |-> env.msg]>> ELSE <<"processes">>

\* info.get(part, {}).get(field, 0)
UsedPercent(info, part, field) ==
    IF part \in DOMAIN info /\ field \in DOMAIN info[part] THEN info[part][field] ELSE 0

get_system_health(env) ==
    LET info == get_system_info(env)
        cpuHigh == UsedPercent(info, "cpu", "usage_percent") > 90
        memHigh == UsedPercent(info, "memory", "used_percent") > 90
        diskHigh == UsedPercent(info, "disk", "used_percent") > 90
        s1 == IF cpuHigh THEN "WARNING" ELSE "HEALTHY"
        s2 == IF memHigh THEN "CRITICAL" ELSE s1
        s3 == IF diskHigh THEN "WARNING" ELSE s2
    IN  [status |-> s3,
         warnings |-> (IF cpuHigh THEN <<"High CPU usage">> ELSE <<>>)
                         \o (IF memHigh THEN <<"High memory usage">> ELSE <<>>)
                         \o (IF diskHigh THEN <<"Low disk space">> ELSE <<>>),
         timestamp |-> Now]

----------------------------------------------------------------------------
(* ai/orchestrator.py: the category handlers *)

\* a file handler that tests 'read' before 'list' and 'ls'
_handle_file_operation_read_first(command, env) ==
    IF env.kind = "raise" THEN Raised("FileManager", env.msg)
    ELSE IF Contains(Lower(command), W_read)
    THEN Returned("read", [success |-> TRUE, message |-> "File read operation"])
    ELSE IF Contains(Lower(command), W_list) \/ Contains(Lower(command), W_ls)
    THEN Returned("list_directory", list_directory(env))
    ELSE Returned("completed", [success |-> TRUE, message |-> "File operation completed"])

_handle_file_operation(command, env) ==
    IF env.kind = "raise" THEN Raised("FileManager", env.msg)
    ELSE IF Contains(Lower(command), W_list) \/ Contains(Lower(command), W_ls)
    THEN Returned("list_directory", list_directory(env))
    ELSE IF Contains(Lower(command), W_read)
    THEN Returned("read", [success |-> TRUE, message |-> "File read operation"])
    ELSE Returned("completed", [success |-> TRUE, message |-> "File operation completed"])

\* a network handler that tests 'weather' before 'search'
_handle_network_operation_weather_first(command, env) ==
    IF env.kind = "raise" THEN Raised("NetworkManager", env.msg)
    ELSE IF Contains(Lower(command), W_weather)
    THEN Returned("get_weather",
                  get_weather(IF Contains(command, W_in)
                              THEN Strip(Split(command, W_in)[2])
                              ELSE W_London))
    ELSE IF Contains(Lower(command), W_search)
    THEN Returned("web_search", web_search(Strip(Remove(command, W_search)), env))
    ELSE IF Contains(Lower(command), W_internet) \/ Contains(Lower(command), W_connectivity)
    THEN Returned("check_connectivity", check_connectivity(env))
    ELSE Returned("get_system_network_info", get_system_network_info(env))

_handle_network_operation(command, env) ==
    IF env.kind = "raise" THEN Raised("NetworkManager", env.msg)
    ELSE IF Contains(Lower(command), W_search)
    THEN Returned("web_search", web_search(Strip(Remove(command, W_search)), env))
    ELSE IF Contains(Lower(command), W_weather)
    THEN Returned("get_weather",
                  get_weather(IF Contains(command, W_in)
                              THEN Strip(Split(command, W_in)[2])
                              ELSE W_London))
    ELSE IF Contains(Lower(command), W_internet) \/ Contains(Lower(command), W_connectivity)
    THEN Returned("check_connectivity", check_connectivity(env))
    ELSE Returned("get_system_network_info", get_system_network_info(env))

_handle_system_operation(command, env) ==
    IF env.kind = "raise" THEN Raised("SystemManager", env.msg)
    ELSE IF Contains(Lower(command), W_status)
    THEN Returned("get_system_info", get_system_info(env))
    ELSE IF Contains(Lower(command), W_process)
    THEN Returned("get_running_processes",
                  [success |-> TRUE, processes |-> get_running_processes(env)])
    ELSE IF Contains(Lower(command), W_health)
    THEN Returned("get_system_health", get_system_health(env))
    ELSE Returned("get_system_info", get_system_info(env))

\* a general handler that echoes the lower-cased command
_handle_general_command_lower(command) ==
    Returned("echo",
             [success |-> TRUE, message |-> W_CommandExecuted \o Lower(command),
              timestamp |-> Now])

_handle_general_command(command) ==
    Returned("echo",
             [success |-> TRUE, message |-> W_CommandExecuted \o command, timestamp |-> Now])

----------------------------------------------------------------------------
(* ai/orchestrator.py: the dispatcher *)

\* the value of a missing user_intent argument
None == "None"

\* the handler _execute_task's if/elif chain selects for an intent value
Route(intent) ==
    IF intent = "file_operation" THEN "file"
    ELSE IF intent = "network_operation" THEN "network"
    ELSE IF intent = "system_operation" THEN "system"
    ELSE "general"

\* a dispatcher that classifies the command itself when no intent is supplied
HandlerCall_classifies(task, env) ==
    LET intent == IF task.intent = None THEN _classify_intent(Lower(task.command))
                  ELSE task.intent
        handler == Route(intent)
    IN  [handler |-> handler,
         outcome |-> IF handler = "file" THEN _handle_file_operation(task.command, env)
                     ELSE IF handler = "network" THEN _handle_network_operation(task.command, env)
                     ELSE IF handler = "system" THEN _handle_system_operation(task.command, env)
                     ELSE _handle_general_command(task.command)]

\* the call _execute_task makes for a task: the handler's name and its outcome
HandlerCall(task, env) ==
    LET intent == IF "intent" \in DOMAIN task THEN task.intent ELSE "general"
        command == IF "command" \in DOMAIN task THEN task.command ELSE <<>>
        handler == Route(intent)
    IN  [handler |-> handler,
         outcome |-> IF handler = "file" THEN _handle_file_operation(command, env)
                     ELSE IF handler = "network" THEN _handle_network_operation(command, env)
                     ELSE IF handler = "system" THEN _handle_system_operation(command, env)
                     ELSE _handle_general_command(command)]

\* an except clause that stores the description under 'message'
_execute_task_message_key(task, env) ==
    LET outcome == HandlerCall(task, env).outcome
    IN  IF outcome.raised
        THEN [success |-> FALSE, message |-> outcome.error]
        ELSE outcome.value

\* an except clause that reports a fixed text instead of str(e)
_execute_task_fixed_error(task, env) ==
    LET outcome == HandlerCall(task, env).outcome
    IN  IF outcome.raised
        THEN [success |-> FALSE, error |-> "Task failed"]
        ELSE outcome.value

\* _execute_task's return value: the handler's, or the failure envelope of its
\* except clause
_execute_task(task, env) ==
    LET outcome == HandlerCall(task, env).outcome
    IN  IF outcome.raised
        THEN [success |-> FALSE, error |-> outcome.error]
        ELSE outcome.value

\* str(KeyError('success'))
KeyErrorSuccess == "'success'"

\* a task id counted from the history instead of from tasks
NewTask_id_from_history(command, user_intent) ==
    [id |-> Len(task_history) + 1,
     command |-> command,
     intent |-> user_intent,
     status |-> "pending",
     priority |-> "MEDIUM",
     timestamp |-> Now]

\* the task dict as submit_task creates it
NewTask(command, user_intent) ==
    [id |-> Len(tasks) + 1,
     command |-> command,
     intent |-> user_intent,
     status |-> "pending",
     priority |-> "MEDIUM",
     timestamp |-> Now]

\* a record that is marked 'completed' whatever its result
Finished_always_completed(task, result) ==
    [id |-> task.id,
     command |-> task.command,
     intent |-> task.intent,
     status |-> "completed",
     priority |-> task.priority,
     timestamp |-> task.timestamp,
     result |-> result]

\* the task dict after lines 43-44
Finished(task, result) ==
    [id |-> task.id,
     command |-> task.command,
     intent |-> task.intent,
     status |-> IF result.success THEN "completed" ELSE "failed",
     priority |-> task.priority,
     timestamp |-> task.timestamp,
     result |-> result]

\* a submit_task without its except clause: the KeyError reaches the caller
OnKeyError_propagates == [raised |-> TRUE, value |-> [exception |-> KeyErrorSuccess]]

\* how a submit_task call ends when result['success'] raises KeyError: the except
\* clause of line 49 returns a failure envelope
OnKeyError == [raised |-> FALSE, value |-> [success |-> FALSE, error |-> KeyErrorSuccess]]

\* a history that takes the new record at its front
AppendHistory_front(history, ref) == <<ref>> \o history

\* a history that takes the new record twice
AppendHistory_twice(history, ref) == history \o <<ref, ref>>

\* self.task_history.append(task): ref is the task dict's place in tasks
AppendHistory(history, ref) == Append(history, ref)

\* submit_task(command, user_intent) in environment env, called by caller
submit_task(command, user_intent, env, caller) ==
    LET task == NewTask(command, user_intent)
        hc == HandlerCall(task, env)
        result == _execute_task(task, env)
    IN  /\ call' = [op |-> "submit_task", caller |-> caller,
                    command |-> command, user_intent |-> user_intent,
                    handler |-> hc.handler, delegate |-> hc.outcome.delegate,
                    handler_raised |-> hc.outcome.raised,
                    env |-> env, outcome |-> hc.outcome]
        /\ IF "success" \in DOMAIN result
           THEN /\ tasks' = Append(tasks, Finished(task, result))
                /\ task_history' = AppendHistory(task_history, Len(tasks) + 1)
                /\ ret' = [op |-> "submit_task", raised |-> FALSE, value |-> result]
           ELSE /\ tasks' = Append(tasks, task)
                /\ task_history' = task_history
                /\ ret' = [op |-> "submit_task", raised |-> OnKeyError.raised,
                           value |-> OnKeyError.value]

\* the dicts task_history refers to
History == [i \in DOMAIN task_history |-> tasks[task_history[i]]]

get_task_history(limit) == SliceFrom(History, 0 - limit)

\* a status summary that counts the submissions instead of the history
get_system_status_counts_tasks ==
    [total_tasks |-> Len(tasks),
     successful_tasks |->
        Cardinality({i \in DOMAIN History :
            "status" \in DOMAIN History[i] /\ History[i].status = "completed"}),
     failed_tasks |->
        Cardinality({i \in DOMAIN History :
            "status" \in DOMAIN History[i] /\ History[i].status = "failed"}),
     registered_modules |-> Cardinality(DOMAIN modules),
     active_tasks |-> Len(tasks)]

get_system_status ==
    [total_tasks |-> Len(History),
     successful_tasks |->
        Cardinality({i \in DOMAIN History :
            "status" \in DOMAIN History[i] /\ History[i].status = "completed"}),
     failed_tasks |->
        Cardinality({i \in DOMAIN History :
            "status" \in DOMAIN History[i] /\ History[i].status = "failed"}),
     registered_modules |-> Cardinality(DOMAIN modules),
     active_tasks |-> Len(tasks)]

\* self.modules[name] = {...}
register_module(name, function, description) ==
    [n \in DOMAIN modules \cup {name} |->
        IF n = name THEN [function |-> function, description |-> description]
        ELSE modules[n]]

----------------------------------------------------------------------------
(* Inputs of the dispatcher *)


\* the commands of the call sequences: one the classifier labels file_operation
\* and one it labels system_operation
Commands == {T_ls, W_status}

\* the commands of a single call: every branch of every handler
DispatchCommands ==
    {T_ls, W_status, W_process, W_weather, T_hi, T_empty,
     <<"l", "i", "s", "t", " ", "f", "i", "l", "e", "s">>,    \* 'list files'
     <<"r", "e", "a", "d", " ", "f", "i", "l", "e">>,    \* 'read file'
     <<"d", "e", "l", "e", "t", "e", " ", "f", "i", "l", "e">>,    \* 'delete file'
     <<"l", "s", " ", "r", "e", "a", "d">>,    \* 'ls read'
     <<"s", "e", "a", "r", "c", "h", " ", "w", "e", "a", "t", "h", "e", "r">>,    \* 'search weather'
     <<"S", "e", "a", "r", "c", "h", " ", "f", "o", "r", " ", "c", "a", "t", "s">>,    \* 'Search for cats'
     <<"w", "e", "a", "t", "h", "e", "r", " ", "i", "n", " ", "P", "a", "r", "i", "s">>,    \* 'weather in Paris'
     <<"w", "e", "a", "t", "h", "e", "r", " ", "i", "n", " ", "b", "e", "r", "l", "i", "n">>,    \* 'weather in berlin'
     <<"W", "E", "A", "T", "H", "E", "R">>,    \* 'WEATHER'
     <<"c", "h", "e", "c", "k", " ", "i", "n", "t", "e", "r", "n", "e", "t">>,    \* 'check internet'
     <<"c", "o", "n", "n", "e", "c", "t", "i", "v", "i", "t", "y">>,    \* 'connectivity'
     <<"n", "e", "t", "w", "o", "r", "k">>,    \* 'network'
     <<"s", "y", "s", "t", "e", "m", " ", "s", "t", "a", "t", "u", "s">>,    \* 'system status'
     <<"p", "r", "o", "c", "e", "s", "s", " ", "s", "t", "a", "t", "u", "s">>,    \* 'process status'
     <<"h", "e", "a", "l", "t", "h">>,    \* 'health'
     <<"c", "p", "u", " ", "h", "e", "a", "l", "t", "h">>,    \* 'cpu health'
     <<"L", "I", "S", "T">>}    \* 'LIST'

\* the intents of the call sequences, and of a single call
Intents == {None, "file_operation", "system_operation"}
DispatchIntents == {None, "unknown_operation"} \cup Labels

ModuleNames == {"nlp", "vision"}

----------------------------------------------------------------------------
(* Initial state: AIOrchestrator.__init__, VoiceInterface.__init__ *)

NoCall == [op |-> "none"]
NoLabel == "unclassified"

InitOrchestrator ==
    /\ tasks = <<>>
    /\ task_history = <<>>
    /\ modules = <<>>
    /\ ret = NoCall
    /\ call = NoCall
    /\ registered = {}

InitVoice ==
    /\ command_history = <<>>
    /\ processed = <<>>

\* no worker thread has been started
Threads == 1..MaxThreads
IdleWorker == [pc |-> "idle"]
InitWorkers == workers = [t \in Threads |-> IdleWorker]

\* SystemManager.__init__: not monitoring, no monitor thread
InitSystemManager == system_manager = [monitoring |-> FALSE, loops |-> <<>>]

\* TerminalEmulator.__init__, with an empty entry
InitTerminal ==
    terminal = [command_history |-> <<>>, history_index |-> 0, entry |-> <<>>,
                op |-> "none", added |-> FALSE, read |-> -1]

\* CommandHistory.__init__(master, max_history)
NewCommandHistory(max_history) ==
    [max_history |-> max_history, history |-> <<>>, current_index |-> -1,
     op |-> "none", returned |-> "", read |-> -1]

InitApps ==
    /\ InitSystemManager
    /\ InitTerminal
    /\ widget = NewCommandHistory(MaxHistory)

Init ==
    /\ InitOrchestrator
    /\ InitVoice
    /\ InitWorkers
    /\ InitApps
    /\ text = T_empty
    /\ label = NoLabel

\* a direct _classify_intent call on any of the input texts
InitClassify ==
    /\ InitOrchestrator
    /\ InitVoice
    /\ InitWorkers
    /\ InitApps
    /\ text \in Texts
    /\ label = NoLabel

----------------------------------------------------------------------------
(* Actions *)

\* orchestrator.submit_task(command, user_intent), user_intent None when omitted
SubmitTask ==
    /\ Len(tasks) < MaxTasks
    /\ \E command \in Commands, user_intent \in Intents, env \in SeqEnvs :
          submit_task(command, user_intent, env, "direct")
    /\ UNCHANGED <<modules, registered, voiceVars, classifyVars, workers, appVars>>

\* NeuroOSDesktop.execute_ai_command, its worker run to completion: process_command
\* and then submit_task with the detected intent
ExecuteAiCommand ==
    /\ Len(tasks) < MaxTasks
    /\ \E entry \in Commands, env \in SeqEnvs :
          LET command == Strip(entry)
          IN  /\ command # <<>>
              /\ process_command_effect(command)
              /\ submit_task(command, process_command_result(command).detected_intent,
                             env, "execute_ai_command")
    /\ UNCHANGED <<modules, registered, classifyVars, workers, appVars>>

GetTaskHistory ==
    /\ \E limit \in 0..MaxLimit :
          /\ ret' = [op |-> "get_task_history", raised |-> FALSE, value |-> get_task_history(limit)]
          /\ call' = [op |-> "get_task_history", limit |-> limit]
    /\ UNCHANGED <<tasks, task_history, modules, registered, voiceVars, classifyVars, workers, appVars>>

GetSystemStatus ==
    /\ ret' = [op |-> "get_system_status", raised |-> FALSE, value |-> get_system_status]
    /\ call' = [op |-> "get_system_status"]
    /\ UNCHANGED <<tasks, task_history, modules, registered, voiceVars, classifyVars, workers, appVars>>

RegisterModule ==
    /\ \E name \in ModuleNames :
          /\ modules' = register_module(name, "function", "")
          /\ registered' = registered \cup {name}
          /\ call' = [op |-> "register_module", again |-> name \in registered]
    /\ ret' = [op |-> "register_module", raised |-> FALSE]
    /\ UNCHANGED <<tasks, task_history, voiceVars, classifyVars, workers, appVars>>

\* one submit_task call on a fresh orchestrator, over every command and intent
Dispatch ==
    /\ tasks = <<>>
    /\ \E command \in DispatchCommands, user_intent \in DispatchIntents, env \in Envs :
          submit_task(command, user_intent, env, "direct")
    /\ UNCHANGED <<modules, registered, voiceVars, classifyVars, workers, appVars>>

\* voice_interface.process_command(t)
ProcessCommand ==
    /\ Len(processed) < MaxProcessed
    /\ \E t \in VoiceTexts : process_command_effect(t)
    /\ UNCHANGED <<orchVars, classifyVars, workers, appVars>>

\* voice_interface._classify_intent(text)
ClassifyIntent ==
    /\ label = NoLabel
    /\ label' = _classify_intent(text)
    /\ UNCHANGED <<orchVars, voiceVars, text, workers, appVars>>

----------------------------------------------------------------------------
(* Worker threads: execute_ai_command starts one thread per command, and each
   runs run_command: process_command, then submit_task statement by statement *)

\* an index into tasks that is the worker's task id instead of its dict
TaskRef_by_id(w) == w.task.id

\* the dict the worker's local variable task refers to, as its place in tasks
TaskRef(w) == w.ref

\* desktop.py 535 and 547, orchestrator.py 27-35: process_command, then the task
\* dict is built from len(self.tasks) as the worker reads it
WorkerCreateTask(t) ==
    /\ workers[t].pc = "idle"
    /\ \E entry \in Commands :
          LET command == Strip(entry)
          IN  /\ command # <<>>
              /\ process_command_effect(command)
              /\ workers' = [workers EXCEPT ![t] =
                    [pc |-> "append_task",
                     task |-> NewTask(command, process_command_result(command).detected_intent)]]
    /\ UNCHANGED <<orchVars, classifyVars, appVars>>

\* orchestrator.py 37: self.tasks.append(task)
WorkerAppendTask(t) ==
    /\ workers[t].pc = "append_task"
    /\ tasks' = Append(tasks, workers[t].task)
    /\ workers' = [workers EXCEPT ![t] =
          [pc |-> "execute", task |-> workers[t].task, ref |-> Len(tasks) + 1]]
    /\ UNCHANGED <<task_history, modules, ret, call, registered, voiceVars, classifyVars, appVars>>

\* orchestrator.py 40: result = self._execute_task(task)
WorkerExecute(t) ==
    /\ workers[t].pc = "execute"
    /\ \E env \in SeqEnvs :
          workers' = [workers EXCEPT ![t] =
            [pc |-> "set_status", task |-> workers[t].task, ref |-> workers[t].ref,
             result |-> _execute_task(workers[t].task, env)]]
    /\ UNCHANGED <<orchVars, voiceVars, classifyVars, appVars>>

\* orchestrator.py 43: task['status'] = ..., or the KeyError and the return of
\* the except clause
WorkerSetStatus(t) ==
    LET w == workers[t]
    IN  /\ w.pc = "set_status"
        /\ IF "success" \in DOMAIN w.result
           THEN /\ tasks' = [tasks EXCEPT ![TaskRef(w)].status =
                                Finished(w.task, w.result).status]
                /\ workers' = [workers EXCEPT ![t].pc = "set_result"]
           ELSE /\ tasks' = tasks
                /\ workers' = [workers EXCEPT ![t] =
                      [pc |-> "done", task |-> w.task, ref |-> w.ref, ret |-> OnKeyError]]
        /\ UNCHANGED <<task_history, modules, ret, call, registered, voiceVars, classifyVars, appVars>>

\* orchestrator.py 44: task['result'] = result
WorkerSetResult(t) ==
    LET w == workers[t]
    IN  /\ w.pc = "set_result"
        /\ tasks' = [tasks EXCEPT ![TaskRef(w)] =
                        [k \in DOMAIN tasks[TaskRef(w)] \cup {"result"} |->
                            IF k = "result" THEN w.result ELSE tasks[TaskRef(w)][k]]]
        /\ workers' = [workers EXCEPT ![t].pc = "append_history"]
        /\ UNCHANGED <<task_history, modules, ret, call, registered, voiceVars, classifyVars, appVars>>

\* orchestrator.py 45-47: self.task_history.append(task); return result
WorkerAppendHistory(t) ==
    LET w == workers[t]
    IN  /\ w.pc = "append_history"
        /\ task_history' = AppendHistory(task_history, TaskRef(w))
        /\ workers' = [workers EXCEPT ![t] =
              [pc |-> "done", task |-> w.task, ref |-> w.ref,
               ret |-> [raised |-> FALSE, value |-> w.result]]]
        /\ UNCHANGED <<tasks, modules, ret, call, registered, voiceVars, classifyVars, appVars>>

----------------------------------------------------------------------------
(* core/system_manager.py: real-time monitoring.  A monitor thread is at "test"
   (about to evaluate  while self.monitoring), at "sleep" (in the loop body, which
   ends with time.sleep on both of its paths) or "exited".  stale: stop_monitoring
   has been called since the thread started; resumed: the thread has entered the
   loop body again after that *)

orchAll == <<orchVars, voiceVars, classifyVars, workers>>

NewLoop == [pc |-> "test", stale |-> FALSE, resumed |-> FALSE]

\* self.monitoring = True, then a new thread with monitor_loop as its target
StartRealTimeMonitoring ==
    /\ Len(system_manager.loops) < MaxLoops
    /\ system_manager' = [monitoring |-> TRUE,
                          loops |-> Append(system_manager.loops, NewLoop)]
    /\ UNCHANGED <<orchAll, terminal, widget>>

\* self.monitoring = False
StopMonitoring ==
    /\ system_manager' =
          [monitoring |-> FALSE,
           loops |-> [i \in DOMAIN system_manager.loops |->
                        IF system_manager.loops[i].pc = "exited"
                        THEN system_manager.loops[i]
                        ELSE [system_manager.loops[i] EXCEPT !.stale = TRUE]]]
    /\ UNCHANGED <<orchAll, terminal, widget>>

\* while self.monitoring: one evaluation by monitor thread i
MonitorLoopTest(i) ==
    /\ i \in DOMAIN system_manager.loops
    /\ system_manager.loops[i].pc = "test"
    /\ system_manager' =
          [system_manager EXCEPT !.loops[i] =
              IF system_manager.monitoring
              THEN [pc |-> "sleep", stale |-> @.stale, resumed |-> @.stale]
              ELSE [pc |-> "exited", stale |-> @.stale, resumed |-> @.resumed]]
    /\ UNCHANGED <<orchAll, terminal, widget>>

\* the loop body of monitor thread i up to the end of its time.sleep
MonitorLoopSleep(i) ==
    /\ i \in DOMAIN system_manager.loops
    /\ system_manager.loops[i].pc = "sleep"
    /\ system_manager' = [system_manager EXCEPT !.loops[i].pc = "test"]
    /\ UNCHANGED <<orchAll, terminal, widget>>

----------------------------------------------------------------------------
(* apps/terminal.py: the command line of the terminal emulator.  entry is the
   text of command_entry; op and added record the most recent of the three bound
   key events: its name and whether it appended to command_history; read is the
   index (Python's, from 0) at which the entry's text was read from
   command_history, -1 when the text was not read from it *)

\* what the user can have typed into the entry: nothing, blanks, commands with
\* and without blanks around them
TerminalTexts ==
    {<<>>, <<" ">>, T_ls, <<" ", "l", "s", " ">>, <<"p", "w", "d">>}

\* an execute_command that leaves history_index on the last command
execute_command_index_last(t) ==
    LET command == Strip(t.entry)
    IN  IF command = <<>>
        THEN [t EXCEPT !.op = "execute_command", !.added = FALSE, !.read = -1]
        ELSE [command_history |-> Append(t.command_history, command),
              history_index |-> Len(t.command_history),
              entry |-> <<>>,
              op |-> "execute_command", added |-> TRUE, read |-> -1]

\* execute_command(event) on the terminal t
execute_command(t) ==
    LET command == Strip(t.entry)
    IN  IF command = <<>>
        THEN [t EXCEPT !.op = "execute_command", !.added = FALSE, !.read = -1]
        ELSE [command_history |-> Append(t.command_history, command),
              history_index |-> Len(t.command_history) + 1,
              entry |-> <<>>,
              op |-> "execute_command", added |-> TRUE, read |-> -1]

\* previous_command(event): command_history[i] of Python is command_history[i + 1];
\* a read outside the list is kept apart as the entry text 'IndexError'
previous_command(t) ==
    IF t.command_history # <<>> /\ t.history_index > 0
    THEN [command_history |-> t.command_history,
          history_index |-> t.history_index - 1,
          entry |-> IF t.history_index - 1 < Len(t.command_history)
                    THEN t.command_history[t.history_index] ELSE <<"IndexError">>,
          op |-> "previous_command", added |-> FALSE, read |-> t.history_index - 1]
    ELSE [t EXCEPT !.op = "previous_command", !.added = FALSE, !.read = -1]

\* next_command(event)
next_command(t) ==
    IF t.command_history # <<>> /\ t.history_index < Len(t.command_history) - 1
    THEN [command_history |-> t.command_history,
          history_index |-> t.history_index + 1,
          entry |-> IF t.history_index + 1 >= 0
                    THEN t.command_history[t.history_index + 2] ELSE <<"IndexError">>,
          op |-> "next_command", added |-> FALSE, read |-> t.history_index + 1]
    ELSE [command_history |-> t.command_history,
          history_index |-> Len(t.command_history),
          entry |-> <<>>,
          op |-> "next_command", added |-> FALSE, read |-> -1]

\* the user types a text into the entry
TypeCommand ==
    /\ \E typed \in TerminalTexts :
          terminal' = [terminal EXCEPT !.entry = typed, !.read = -1]
    /\ terminal'.entry # terminal.entry
    /\ UNCHANGED <<orchAll, system_manager, widget>>

\* <Return>
ExecuteCommand ==
    /\ Len(terminal.command_history) < MaxEntered
    /\ terminal' = execute_command(terminal)
    /\ UNCHANGED <<orchAll, system_manager, widget>>

\* <Up>
PreviousCommand ==
    /\ terminal' = previous_command(terminal)
    /\ UNCHANGED <<orchAll, system_manager, widget>>

\* <Down>
NextCommand ==
    /\ terminal' = next_command(terminal)
    /\ UNCHANGED <<orchAll, system_manager, widget>>

----------------------------------------------------------------------------
(* ui/widgets.py: the CommandHistory widget.  op, returned and read record the
   most recent call: its name, the value it returned and the index (Python's,
   from 0) it used to read history, -1 when it read none *)

WidgetCommands == {"help", "ls", "pwd"}

\* history[i] of Python for 0 <= i; an index outside the list raises IndexError
HistoryAt(history, i) ==
    IF 0 <= i /\ i < Len(history) THEN history[i + 1] ELSE "IndexError"

\* add_command(command) on the widget w
add_command(w, command) ==
    LET appended == Append(w.history, command)
        history == IF Len(appended) > w.max_history THEN Tail(appended) ELSE appended
    IN  [max_history |-> w.max_history,
         history |-> history,
         current_index |-> Len(history) - 1,
         op |-> "add_command", returned |-> "", read |-> -1]

\* get_previous()
get_previous(w) ==
    IF w.history = <<>>
    THEN [w EXCEPT !.op = "get_previous", !.returned = "", !.read = -1]
    ELSE LET current_index == IF w.current_index > 0 THEN w.current_index - 1
                              ELSE w.current_index
         IN  [max_history |-> w.max_history,
              history |-> w.history,
              current_index |-> current_index,
              op |-> "get_previous",
              returned |-> HistoryAt(w.history, current_index),
              read |-> current_index]

\* get_next()
get_next(w) ==
    IF w.history = <<>>
    THEN [w EXCEPT !.op = "get_next", !.returned = "", !.read = -1]
    ELSE IF w.current_index < Len(w.history) - 1
    THEN [max_history |-> w.max_history,
          history |-> w.history,
          current_index |-> w.current_index + 1,
          op |-> "get_next",
          returned |-> HistoryAt(w.history, w.current_index + 1),
          read |-> w.current_index + 1]
    ELSE [max_history |-> w.max_history,
          history |-> w.history,
          current_index |-> Len(w.history),
          op |-> "get_next", returned |-> "", read |-> -1]

AddCommand ==
    /\ \E command \in WidgetCommands : widget' = add_command(widget, command)
    /\ UNCHANGED <<orchAll, system_manager, terminal>>

GetPrevious ==
    /\ widget' = get_previous(widget)
    /\ UNCHANGED <<orchAll, system_manager, terminal>>

GetNext ==
    /\ widget' = get_next(widget)
    /\ UNCHANGED <<orchAll, system_manager, terminal>>

----------------------------------------------------------------------------
(* Specifications *)

Next ==
    \/ SubmitTask
    \/ ExecuteAiCommand
    \/ GetTaskHistory
    \/ GetSystemStatus
    \/ RegisterModule

NextDispatch == Dispatch

NextVoice == ProcessCommand

NextClassify == ClassifyIntent

NextThreads ==
    \E t \in Threads :
        \/ WorkerCreateTask(t)
        \/ WorkerAppendTask(t)
        \/ WorkerExecute(t)
        \/ WorkerSetStatus(t)
        \/ WorkerSetResult(t)
        \/ WorkerAppendHistory(t)

\* call sequences on one orchestrator
Spec == Init /\ [][Next]_vars

\* a single submit_task call over every command, intent and environment
SpecDispatch == Init /\ [][NextDispatch]_vars

\* process_command sequences on one voice interface
SpecVoice == Init /\ [][NextVoice]_vars

\* one _classify_intent call on each input text
SpecClassify == InitClassify /\ [][NextClassify]_vars

\* worker threads running submit_task on the shared orchestrator, their
\* statements interleaved in any order
SpecThreads == Init /\ [][NextThreads]_vars

NextMonitor ==
    \/ StartRealTimeMonitoring
    \/ StopMonitoring
    \/ \E i \in 1..MaxLoops : MonitorLoopTest(i)
    \/ \E i \in 1..MaxLoops : MonitorLoopSleep(i)

\* start_real_time_monitoring and stop_monitoring calls on one SystemManager,
\* interleaved with the steps of its monitor threads
SpecMonitor == Init /\ [][NextMonitor]_vars

NextTerminal ==
    \/ TypeCommand
    \/ ExecuteCommand
    \/ PreviousCommand
    \/ NextCommand

\* key events on the terminal emulator's entry, in any order
SpecTerminal == Init /\ [][NextTerminal]_vars

\* a CommandHistory widget created with any max_history from 1 to MaxHistory
InitWidget ==
    /\ InitOrchestrator
    /\ InitVoice
    /\ InitWorkers
    /\ InitSystemManager
    /\ InitTerminal
    /\ text = T_empty
    /\ label = NoLabel
    /\ \E max_history \in 1..MaxHistory : widget = NewCommandHistory(max_history)

NextWidget ==
    \/ AddCommand
    \/ GetPrevious
    \/ GetNext

\* add_command, get_previous and get_next calls on one widget, in any order
SpecWidget == InitWidget /\ [][NextWidget]_vars

----------------------------------------------------------------------------
(* Properties of the dispatcher *)

\* the record of the most recent submit_task call
LastTask == tasks[Len(tasks)]

Min(a, b) == IF a < b THEN a ELSE b

\* C1: every task record whose submit_task call has returned has status
\* 'completed' or 'failed' (never 'pending') and carries a result envelope.
C1_TerminalStatusAndResult ==
    \A i \in DOMAIN tasks :
        /\ tasks[i].status \in {"completed", "failed"}
        /\ "result" \in DOMAIN tasks[i]

\* C2: every submit_task call increases the length of task_history by exactly one.
C2_HistoryGrowsByOne ==
    [][Len(tasks') = Len(tasks) + 1 => Len(task_history') = Len(task_history) + 1]_vars

\* C3: with submit_task calls made one after another, the k-th submission gets
\* id k, and the ids are pairwise distinct and strictly increasing in submission
\* order, both in tasks and in task_history.
C3_IdsDistinctIncreasing ==
    /\ \A k \in DOMAIN tasks : tasks[k].id = k
    /\ \A i, j \in DOMAIN tasks : i < j => tasks[i].id < tasks[j].id
    /\ \A i, j \in DOMAIN History : i < j => History[i].id < History[j].id

\* a submission reached the history after one that never did: the last record of
\* the history carries the id of the last submission
C3_Witness ==
    /\ Len(task_history) >= 1
    /\ Len(tasks) > Len(task_history)
    /\ History[Len(History)].id = Len(tasks)

\* C4: for every limit >= 0, get_task_history(limit) returns at most limit
\* records: exactly the last min(limit, len(task_history)) records of
\* task_history, in their original order.
C4_HistoryLimit ==
    call.op = "get_task_history" =>
        /\ Len(ret.value) <= call.limit
        /\ ret.value = SubSeq(History,
                              Len(History) - Min(call.limit, Len(History)) + 1,
                              Len(History))

\* C5: submit_task never raises to its caller: whatever the command, the intent
\* and the handler's outcome, it returns an envelope with a boolean 'success'.
C5_AlwaysEnvelope ==
    call.op = "submit_task" =>
        /\ ret.raised = FALSE
        /\ "success" \in DOMAIN ret.value
        /\ ret.value.success \in BOOLEAN

\* a delegate returned a mapping without 'success' and the caller got an envelope
C5_Witness ==
    /\ call.op = "submit_task"
    /\ call.delegate \in {"get_system_info", "get_system_health"}
    /\ ~call.handler_raised
    /\ ret.value.success = FALSE

IsSuccessEnvelope(e) ==
    /\ "success" \in DOMAIN e
    /\ e.success = TRUE
    /\ "error" \notin DOMAIN e

IsFailureEnvelope(e) ==
    /\ "success" \in DOMAIN e
    /\ e.success = FALSE
    /\ "error" \in DOMAIN e
    /\ e.error \in STRING

\* C6: the envelope submit_task returns is exactly one of a success envelope
\* (success true, no top-level 'error') and a failure envelope (success false,
\* 'error' a description string).
C6_SuccessXorFailure ==
    call.op = "submit_task" =>
        /\ IsSuccessEnvelope(ret.value) \/ IsFailureEnvelope(ret.value)
        /\ ~(IsSuccessEnvelope(ret.value) /\ IsFailureEnvelope(ret.value))

\* a handler raised and the caller got the failure envelope of _execute_task
C6_Witness ==
    /\ call.op = "submit_task"
    /\ call.handler_raised
    /\ IsFailureEnvelope(ret.value)
    /\ ret.value.error \in Errors

----------------------------------------------------------------------------
(* Properties of the classifier *)

FileWords == {W_file, W_folder, W_directory, W_list, W_ls, W_read, W_create, W_delete}
NetworkWords == {W_search, W_find, W_weather, W_internet, W_connectivity, W_network}
SystemWords == {W_system, W_status, W_process, W_cpu, W_memory, W_health}

Occurs(words, t) == \E w \in words : Contains(t, w)

\* C7: for every lower-cased text, _classify_intent returns file_operation if a
\* file keyword occurs in it, otherwise network_operation if a network keyword
\* occurs, otherwise system_operation if a system keyword occurs.
C7_PriorityOrder ==
    (label # NoLabel /\ text = Lower(text)) =>
        /\ Occurs(FileWords, text) => label = "file_operation"
        /\ (~Occurs(FileWords, text) /\ Occurs(NetworkWords, text))
              => label = "network_operation"
        /\ (~Occurs(FileWords, text) /\ ~Occurs(NetworkWords, text)
                /\ Occurs(SystemWords, text))
              => label = "system_operation"

\* a text with a network keyword before a file keyword is labelled by the file set
C7_Witness ==
    /\ text = Lower(text)
    /\ Occurs(NetworkWords, text)
    /\ Occurs(FileWords, text)
    /\ Find(text, W_search) = 1
    /\ label = "file_operation"

\* C8: classification is total over a closed label set: every text, the empty
\* one included, gets one of the four labels, and gets 'general' exactly when it
\* contains no keyword of the three sets.
C8_TotalClosed ==
    /\ label = NoLabel => ENABLED ClassifyIntent
    /\ label # NoLabel =>
          /\ label \in Labels
          /\ label = "general" <=>
                ~Occurs(FileWords \cup NetworkWords \cup SystemWords, text)

\* the empty text is labelled general
C8_Witness == text = <<>> /\ label = "general"

HandlerOfLabel ==
    [file_operation |-> "file", network_operation |-> "network",
     system_operation |-> "system", general |-> "general"]

C11_RaisedBecomesFailedRecord ==
    [][(Len(tasks') = Len(tasks) + 1 /\ call'.handler_raised) =>
        /\ ret'.raised = FALSE
        /\ ret'.value = [success |-> FALSE, error |-> call'.outcome.error]
        /\ Len(task_history') = Len(task_history) + 1
        /\ SubSeq(History', 1, Len(History)) = History
        /\ History'[Len(History')] = tasks'[Len(tasks')]
        /\ tasks'[Len(tasks')].command = call'.command
        /\ tasks'[Len(tasks')].status = "failed"]_vars

\* the second submission's handler raised 'Path does not exist' and the history
\* holds its failed record after the first submission's
C11_Witness ==
    /\ ret.op = "submit_task"
    /\ call.handler_raised
    /\ call.outcome.error = "Path does not exist"
    /\ ret.value.error = "Path does not exist"
    /\ Len(task_history) = 2
    /\ History[2].id = 2
    /\ History[2].status = "failed"

\* C12: task_history is append-only: across any sequence of submit_task,
\* get_task_history, get_system_status and register_module calls, the history
\* before an operation is a prefix of the history after it; no record is ever
\* removed, replaced or moved to another position.
C12_HistoryAppendOnly ==
    [][/\ Len(task_history') >= Len(task_history)
       /\ SubSeq(task_history', 1, Len(task_history)) = task_history
       /\ SubSeq(History', 1, Len(History)) = History]_vars

\* a history of two records, in submission order, has just been read
C12_Witness ==
    /\ call.op = "get_task_history"
    /\ Len(ret.value) = 2
    /\ Len(task_history) = 2
    /\ History[1].id < History[2].id

\* C13: each of the four category handlers (file, network, system, general)
\* returns, for every command and every branch of its keyword sub-matching, a
\* result envelope: a mapping with a boolean 'success' key, and with an 'error'
\* description when success is false.
C13_HandlersReturnEnvelope ==
    (call.op = "submit_task" /\ ~call.handler_raised) =>
        LET value == call.outcome.value
        IN  /\ "success" \in DOMAIN value
            /\ value.success \in BOOLEAN
            /\ (value.success = FALSE => "error" \in DOMAIN value)

\* 'weather in ', the fixed part of the commands of C14
WeatherInPrefix == W_weather \o <<" ">> \o W_in \o <<" ">>

\* C14: for every command of the form 'weather in X' submitted with intent
\* network_operation (X any location name, the command not containing 'search'),
\* submit_task returns a success envelope whose weather record has location
\* equal to X in title case (e.g. 'Paris' for 'weather in Paris').
C14_WeatherLocation ==
    (/\ call.op = "submit_task"
     /\ call.user_intent = "network_operation"
     /\ ~call.handler_raised
     /\ Len(call.command) > Len(WeatherInPrefix)
     /\ SubSeq(call.command, 1, Len(WeatherInPrefix)) = WeatherInPrefix
     /\ ~Contains(Lower(call.command), W_search)) =>
        LET X == SubSeq(call.command, Len(WeatherInPrefix) + 1, Len(call.command))
        IN  /\ ret.value.success = TRUE
            /\ "weather" \in DOMAIN ret.value
            /\ ret.value.weather.location = Title(X)

\* C15: for every command submitted with intent file_operation whose lower-cased
\* text contains 'list' or 'ls', submit_task returns the envelope of
\* FileManager.list_directory() for the current working directory (a success
\* envelope with that directory's entries when it exists and is readable), and
\* this branch takes precedence over the 'read' branch. When the handler raises
\* before it reaches the branch, the failure envelope of C11 is returned.
C15_ListBranch ==
    (/\ call.op = "submit_task"
     /\ call.user_intent = "file_operation"
     /\ \/ Contains(Lower(call.command), W_list)
        \/ Contains(Lower(call.command), W_ls)) =>
        /\ call.handler = "file"
        /\ \/ /\ call.handler_raised
              /\ call.env.kind = "raise"
              /\ ret.value = [success |-> FALSE, error |-> call.env.msg]
           \/ /\ ~call.handler_raised
              /\ call.delegate = "list_directory"
              /\ ret.value = list_directory(call.env)
              /\ call.env.kind = "ok" =>
                    /\ ret.value.success = TRUE
                    /\ ret.value.path = "cwd"
                    /\ "items" \in DOMAIN ret.value
              /\ call.env.kind = "fail" =>
                    ret.value = [success |-> FALSE, error |-> call.env.msg]
        /\ LastTask.status = IF ret.value.success THEN "completed" ELSE "failed"

\* 'ls read', which holds both 'ls' and 'read', was answered with the directory's
\* entries
C15_Witness ==
    /\ call.op = "submit_task"
    /\ call.user_intent = "file_operation"
    /\ Contains(Lower(call.command), W_ls)
    /\ Contains(Lower(call.command), W_read)
    /\ call.delegate = "list_directory"
    /\ ret.value.success = TRUE
    /\ "items" \in DOMAIN ret.value

----------------------------------------------------------------------------
(* Properties of concurrent submissions *)

\* the places in task_history that refer to the task dict of worker t
RecordsOf(t) == {i \in DOMAIN task_history : task_history[i] = workers[t].ref}

\* C16: when two or more GUI worker threads execute submit_task concurrently on
\* the shared orchestrator, with their steps interleaved in any order, all
\* records in tasks still have pairwise distinct ids, and each submission still
\* adds exactly one record to task_history. The second part is stated here of
\* the submissions that returned their handler's value, so that the formula
\* fails only by the interleaving.
C16_ConcurrentSubmissions ==
    /\ \A i, j \in DOMAIN tasks : i # j => tasks[i].id # tasks[j].id
    /\ \A t \in Threads :
          (workers[t].pc = "done" /\ workers[t].ret # OnKeyError) =>
              Cardinality(RecordsOf(t)) = 1

----------------------------------------------------------------------------
(* Properties of the status summary and of the stored records *)

\* C17: in every reachable state, get_system_status satisfies total_tasks =
\* successful_tasks + failed_tasks = len(task_history), and registered_modules
\* equals the number of distinct names passed to register_module so far
\* (re-registering a name does not increase it).
C17_StatusTotals ==
    /\ get_system_status.total_tasks =
          get_system_status.successful_tasks + get_system_status.failed_tasks
    /\ get_system_status.total_tasks = Len(task_history)
    /\ get_system_status.registered_modules = Cardinality(registered)
    /\ call.op = "get_system_status" => ret.value = get_system_status

\* a name has just been registered a second time, after two submissions of
\* which one reached the history, as a failed record
C17_Witness ==
    /\ call.op = "register_module"
    /\ call.again
    /\ get_system_status.registered_modules = 1
    /\ get_system_status.total_tasks = 1
    /\ get_system_status.successful_tasks = 0
    /\ get_system_status.failed_tasks = 1
    /\ Len(tasks) = 2

\* C18: for every record in task_history, status is 'completed' exactly when the
\* stored result envelope has success true and 'failed' exactly when it has
\* success false, and the stored result is the same envelope that submit_task
\* returned for that submission.
C18_StatusMatchesResult ==
    [][/\ \A i \in DOMAIN History' :
            /\ "result" \in DOMAIN History'[i]
            /\ "success" \in DOMAIN History'[i].result
            /\ History'[i].status = "completed" <=> History'[i].result.success = TRUE
            /\ History'[i].status = "failed" <=> History'[i].result.success = FALSE
       /\ Len(task_history') > Len(task_history) =>
            /\ ret'.op = "submit_task"
            /\ History'[Len(History')].result = ret'.value
       /\ \A i \in DOMAIN History : History'[i].result = History[i].result]_vars

\* a failed record follows a completed one, each holding the envelope its call
\* returned
C18_Witness ==
    /\ ret.op = "submit_task"
    /\ Len(task_history) = 2
    /\ History[1].status = "completed"
    /\ History[1].result.success = TRUE
    /\ History[2].status = "failed"
    /\ History[2].result = ret.value
    /\ ret.value.success = FALSE

\* C19: a task record's status only ever moves from 'pending' to 'completed' or
\* from 'pending' to 'failed': it is created as 'pending', changes at most once,
\* and once it is 'completed' or 'failed' no later operation on the orchestrator
\* changes its status or result. The result is stored by the statement after
\* the one that sets the status, in the same submit_task call.
C19_StatusMovesOnce ==
    [][/\ Len(tasks') >= Len(tasks)
       /\ \A i \in DOMAIN tasks' \ DOMAIN tasks :
            /\ tasks'[i].status = "pending"
            /\ "result" \notin DOMAIN tasks'[i]
       /\ \A i \in DOMAIN tasks :
            /\ tasks'[i].status # tasks[i].status =>
                  /\ tasks[i].status = "pending"
                  /\ tasks'[i].status \in {"completed", "failed"}
            /\ "result" \in DOMAIN tasks[i] => tasks'[i] = tasks[i]
            /\ ("result" \in DOMAIN tasks'[i] /\ "result" \notin DOMAIN tasks[i]) =>
                  /\ tasks[i].status \in {"completed", "failed"}
                  /\ tasks'[i].status = tasks[i].status]_vars

\* two interleaved submissions that drew the same id have both returned, one
\* record completed and the other failed, each with its own result
C19_Witness ==
    /\ \A t \in Threads : workers[t].pc = "done"
    /\ Len(tasks) = 2
    /\ tasks[1].id = tasks[2].id
    /\ tasks[1].status = "completed"
    /\ tasks[2].status = "failed"
    /\ tasks[1].result.success = TRUE
    /\ tasks[2].result.success = FALSE

----------------------------------------------------------------------------
(* Properties of the routing *)

\* C20: _execute_task routes by the record's intent label: 'file_operation' to
\* the file handler, 'network_operation' to the network handler,
\* 'system_operation' to the system handler, and every other value (including
\* 'general', an absent/None intent and any unknown label) to the general
\* handler, which always returns a success envelope whose message is
\* 'Command executed: ' followed by the unmodified command text.
C20_RoutingAndEcho ==
    call.op = "submit_task" =>
        /\ LastTask.intent = call.user_intent
        /\ call.user_intent = "file_operation" <=> call.handler = "file"
        /\ call.user_intent = "network_operation" <=> call.handler = "network"
        /\ call.user_intent = "system_operation" <=> call.handler = "system"
        /\ call.user_intent \notin {"file_operation", "network_operation", "system_operation"}
              <=> call.handler = "general"
        /\ call.handler = "general" =>
              /\ ~call.handler_raised
              /\ call.outcome.value.success = TRUE
              /\ call.outcome.value.message = W_CommandExecuted \o call.command
              /\ ret.value = call.outcome.value
        /\ \A env \in Envs :
              LET absent == HandlerCall([id |-> 1, command |-> call.command], env)
              IN  /\ absent.handler = "general"
                  /\ absent.outcome.value.message = W_CommandExecuted \o call.command

\* a command with upper-case letters under an unknown label came back echoed as
\* it was written
C20_Witness ==
    /\ call.op = "submit_task"
    /\ call.user_intent = "unknown_operation"
    /\ call.command # Lower(call.command)
    /\ Occurs(FileWords, Lower(call.command))
    /\ call.handler = "general"
    /\ ret.value.message = W_CommandExecuted \o call.command

----------------------------------------------------------------------------
(* Properties of the network handler *)

\* C21: the network handler maps every command to exactly one delegate operation
\* with fixed precedence: web_search if the lower-cased command contains
\* 'search'; else get_weather if it contains 'weather'; else check_connectivity
\* if it contains 'internet' or 'connectivity'; else get_system_network_info. A
\* command containing several of these keywords triggers only the
\* highest-precedence operation.
C21_NetworkPrecedence ==
    (call.op = "submit_task" /\ call.handler = "network" /\ ~call.handler_raised) =>
        LET lowered == Lower(call.command)
        IN  /\ call.delegate \in {"web_search", "get_weather", "check_connectivity",
                                  "get_system_network_info"}
            /\ call.delegate = "web_search" <=> Contains(lowered, W_search)
            /\ call.delegate = "get_weather" <=>
                  (~Contains(lowered, W_search) /\ Contains(lowered, W_weather))
            /\ call.delegate = "check_connectivity" <=>
                  /\ ~Contains(lowered, W_search)
                  /\ ~Contains(lowered, W_weather)
                  /\ Contains(lowered, W_internet) \/ Contains(lowered, W_connectivity)
            /\ call.delegate = "web_search" => "query" \in DOMAIN call.outcome.value
                                                \/ call.outcome.value.success = FALSE
            /\ call.delegate = "get_weather" => "weather" \in DOMAIN call.outcome.value
            /\ call.delegate = "check_connectivity" => "connected" \in DOMAIN call.outcome.value

\* 'search weather' holds two of the keywords and was answered by web_search alone
C21_Witness ==
    /\ call.op = "submit_task"
    /\ call.handler = "network"
    /\ Contains(Lower(call.command), W_search)
    /\ Contains(Lower(call.command), W_weather)
    /\ call.delegate = "web_search"
    /\ "query" \in DOMAIN ret.value
    /\ "weather" \notin DOMAIN ret.value

----------------------------------------------------------------------------
(* Properties of the classifier's case handling *)

\* str.upper() of one character
UpperOf(c) == IF c = U_00DF THEN <<"S", "S">> ELSE <<UpperChar(c)>>

\* str.upper()
RECURSIVE Upper(_)
Upper(s) == IF s = <<>> THEN <<>> ELSE UpperOf(Head(s)) \o Upper(Tail(s))

\* C22: classification is case-insensitive: for every text, classifying the
\* text, its upper-cased form and its lower-cased form yields the same intent
\* label.
C22_CaseInsensitive ==
    \A i, j \in DOMAIN processed :
        processed[j].original_text \in {Upper(processed[i].original_text),
                                        Lower(processed[i].original_text)} =>
            processed[j].detected_intent = processed[i].detected_intent

----------------------------------------------------------------------------
(* Properties of the history under concurrent submissions *)

\* C23: when submit_task calls from different GUI worker threads overlap,
\* task_history still lists records in submission order: the ids of the records
\* in task_history are strictly increasing, so get_task_history returns the most
\* recently submitted records in submission order. Stated here with equal ids
\* allowed and as the order of the records in tasks, so that the formula fails
\* only by a record overtaking an earlier submission.
C23_HistoryInSubmissionOrder ==
    \A i, j \in DOMAIN task_history :
        i < j =>
            /\ History[i].id <= History[j].id
            /\ task_history[i] < task_history[j]

----------------------------------------------------------------------------
(* Properties of tasks and task_history together *)

\* the records of tasks that are still 'pending'
Pending == {i \in DOMAIN tasks : tasks[i].status = "pending"}

\* C24: the active_tasks value of get_system_status is the number of tasks
\* currently in progress, i.e. records whose status is 'pending'; when every
\* submit_task call made so far has returned, active_tasks is 0. Stated here as
\* the first part only: the value returned equals the number of 'pending'
\* records.
C24_ActiveTasksArePending ==
    call.op = "get_system_status" => ret.value.active_tasks = Cardinality(Pending)

\* C25, as the claim states it: in every reachable state of the orchestrator,
\* every record in task_history is also a record of tasks (same id), tasks never
\* shrinks, and len(task_history) <= len(tasks); the difference is exactly the
\* number of submissions that have not (or not yet) reached a terminal status.
C25_DifferenceIsPending ==
    /\ \A i \in DOMAIN task_history :
          /\ task_history[i] \in DOMAIN tasks
          /\ History[i].id = tasks[task_history[i]].id
    /\ Len(task_history) <= Len(tasks)
    /\ Len(tasks) - Len(task_history) = Cardinality(Pending)

\* the records whose status is set and whose call has not yet appended them to
\* task_history: their thread is between line 43 and line 45
Unrecorded ==
    {workers[t].ref : t \in {u \in Threads : workers[u].pc \in {"set_result", "append_history"}}}

\* C25, amended: every record in task_history is also a record of tasks, each
\* record at most once; tasks never shrinks and keeps its records' ids;
\* len(task_history) <= len(tasks); and the difference is the number of records
\* not yet appended to task_history: the 'pending' ones (in progress, or left
\* 'pending' by a result without 'success') plus the ones whose status has just
\* been set by a call that has not reached line 45.
C25_DifferenceIsUnrecorded ==
    [][/\ Len(tasks') >= Len(tasks)
       /\ \A i \in DOMAIN tasks : tasks'[i].id = tasks[i].id
       /\ \A i \in DOMAIN task_history' : task_history'[i] \in DOMAIN tasks'
       /\ \A i, j \in DOMAIN task_history' :
            i # j => task_history'[i] # task_history'[j]
       /\ \A i \in DOMAIN task_history' : task_history'[i] \notin Pending' \cup Unrecorded'
       /\ \A i \in Unrecorded' : tasks'[i].status \in {"completed", "failed"}
       /\ Len(task_history') <= Len(tasks')
       /\ Len(tasks') - Len(task_history') =
            Cardinality(Pending') + Cardinality(Unrecorded')]_vars

\* one call has returned leaving its record 'pending', another has set its
\* record's status and not yet appended it: two records, none in the history,
\* one of them 'pending'
C25_Witness ==
    /\ Len(tasks) = 2
    /\ task_history = <<>>
    /\ Cardinality(Pending) = 1
    /\ Cardinality(Unrecorded) = 1
    /\ \E t \in Threads : workers[t].pc = "done" /\ workers[t].ret = OnKeyError

----------------------------------------------------------------------------
(* Properties of process_command *)

\* C26: every process_command call appends exactly one entry (original text,
\* detected intent, timestamp) to command_history and returns the original text
\* unchanged together with the execution plan registered for the detected
\* intent; the fallback plan 'Standard execution plan' is never returned by
\* process_command.
C26_OneEntryPerCommand ==
    [][/\ Len(command_history') = Len(command_history) + 1
       /\ SubSeq(command_history', 1, Len(command_history)) = command_history
       /\ Len(processed') = Len(processed) + 1
       /\ LET entry == command_history'[Len(command_history')]
              returned == processed'[Len(processed')]
          IN  /\ DOMAIN entry = {"text", "intent", "timestamp"}
              /\ entry.text = returned.original_text
              /\ entry.intent = returned.detected_intent
              /\ returned.detected_intent = _classify_intent(Lower(entry.text))
              /\ returned.detected_intent \in DOMAIN plans
              /\ returned.execution_plan = plans[returned.detected_intent]
              /\ returned.execution_plan # "Standard execution plan"]_vars

\* the second call was given 'LS': its entry and its returned text are 'LS' as
\* written, with the plan of file_operation
C26_Witness ==
    /\ Len(command_history) = 2
    /\ Len(processed) = 2
    /\ command_history[2].text = T_LS
    /\ command_history[2].intent = "file_operation"
    /\ processed[2].original_text = T_LS
    /\ processed[2].execution_plan = plans.file_operation

----------------------------------------------------------------------------
(* Properties of the system manager *)

\* C27: get_system_health reports the most severe condition present, for every
\* combination of CPU, memory and disk used-percent values in 0..100: 'CRITICAL'
\* whenever memory use exceeds 90, otherwise 'WARNING' when CPU use or disk use
\* exceeds 90, otherwise 'HEALTHY'; and the status is 'HEALTHY' exactly when the
\* warnings list is empty.
C27_MostSevereCondition ==
    (/\ call.op = "submit_task"
     /\ ~call.handler_raised
     /\ call.delegate = "get_system_health"
     /\ call.env.kind = "ok") =>
        LET usage == call.env.usage
            health == call.outcome.value
        IN  /\ health.status =
                  IF usage.memory > 90 THEN "CRITICAL"
                  ELSE IF usage.cpu > 90 \/ usage.disk > 90 THEN "WARNING"
                  ELSE "HEALTHY"
            /\ health.status = "HEALTHY" <=> health.warnings = <<>>

----------------------------------------------------------------------------
(* Properties of the monitoring *)

\* the monitor threads that have not left their loop
Running == {i \in DOMAIN system_manager.loops : system_manager.loops[i].pc # "exited"}

\* C28: across any sequence of start_real_time_monitoring and stop_monitoring
\* calls on a SystemManager, at most one monitor loop is running at any time,
\* and after a stop_monitoring call no monitor loop started before it is still
\* running once its current sleep has elapsed.
C28_OneMonitorLoop ==
    /\ Cardinality(Running) <= 1
    /\ \A i \in DOMAIN system_manager.loops : ~system_manager.loops[i].resumed

----------------------------------------------------------------------------
(* Properties of the terminal emulator *)

\* C29: in the terminal emulator, after any sequence of execute_command,
\* previous_command and next_command events, 0 <= history_index <=
\* len(command_history); an empty command is never added to command_history;
\* right after a command is executed history_index equals len(command_history),
\* so the next previous_command shows the most recently executed command, and
\* every index used to read command_history is within bounds.
C29_TerminalHistoryIndex ==
    [][/\ 0 <= terminal'.history_index
       /\ terminal'.history_index <= Len(terminal'.command_history)
       /\ \A i \in DOMAIN terminal'.command_history :
            /\ terminal'.command_history[i] # <<>>
            /\ terminal'.command_history[i] = Strip(terminal'.command_history[i])
       /\ Len(terminal'.command_history) # Len(terminal.command_history) =>
            /\ terminal'.op = "execute_command"
            /\ terminal'.added
            /\ terminal'.history_index = Len(terminal'.command_history)
            /\ terminal'.command_history =
                  Append(terminal.command_history, Strip(terminal.entry))
       /\ Len(terminal'.command_history) = Len(terminal.command_history) =>
            terminal'.command_history = terminal.command_history
       /\ (terminal.op = "execute_command" /\ terminal.added
              /\ terminal'.op = "previous_command") =>
            /\ terminal'.read = Len(terminal.command_history) - 1
            /\ terminal'.entry = terminal.command_history[Len(terminal.command_history)]
       /\ terminal'.read # -1 =>
            /\ 0 <= terminal'.read
            /\ terminal'.read < Len(terminal'.command_history)
            /\ terminal'.entry = terminal'.command_history[terminal'.read + 1]]_vars

\* ' ls ' was executed after 'pwd' and <Up> has just shown 'ls', the command
\* stored without its blanks
C29_Witness ==
    /\ terminal.op = "previous_command"
    /\ Len(terminal.command_history) = 2
    /\ terminal.command_history[2] = T_ls
    /\ terminal.read = 1
    /\ terminal.history_index = 1
    /\ terminal.entry = T_ls

----------------------------------------------------------------------------
(* Properties of the CommandHistory widget *)

\* C30: in the CommandHistory widget, after any sequence of add_command,
\* get_previous and get_next calls with max_history >= 1, len(history) <=
\* max_history, history holds the most recently added commands in insertion
\* order, get_previous and get_next never read history out of bounds, and the
\* first get_previous after an add_command returns the command just added.
C30_WidgetHistory ==
    [][/\ Len(widget'.history) <= widget'.max_history
       /\ widget'.op = "add_command" =>
            LET added == Append(widget.history, widget'.history[Len(widget'.history)])
            IN  /\ Len(widget'.history) = Min(Len(added), widget.max_history)
                /\ widget'.history =
                      SubSeq(added, Len(added) - Len(widget'.history) + 1, Len(added))
       /\ widget'.op # "add_command" => widget'.history = widget.history
       /\ widget'.read # -1 =>
            /\ 0 <= widget'.read
            /\ widget'.read < Len(widget'.history)
            /\ widget'.returned = widget'.history[widget'.read + 1]
       /\ (widget.op = "add_command" /\ widget'.op = "get_previous") =>
            widget'.returned = widget.history[Len(widget.history)]]_vars

====
